---- MODULE Spec2Model ----
(***************************************************************************)
(* A model of pathml.core.slide_data.SlideData: the tile enumerator        *)
(* (generate_tiles) and the dispatch/collection engine (run), together     *)
(* with the dataset view built by _create_tile_dataset.                    *)
(*                                                                         *)
(* Optional values are sequences: <<>> is Python's None and <<x>> is a     *)
(* present value x.  Mappings (Masks, labels) are sets of entries.         *)
(***************************************************************************)
EXTENDS Integers, Sequences, FiniteSets, TLC

VARIABLES
    slide,          \* self.slide: None or the backend handle
    masks,          \* self.masks: None or the slide-level Masks mapping
    labels,         \* self.labels: None or the labels mapping
    tiles,          \* self.tiles: None or a reference to a Tiles container
    store,          \* the live Tiles containers, by reference
    tile_dataset,   \* self.tile_dataset: None or a TileDataset
    pc,             \* where run() is: "idle", "submit" or "collect"
    args,           \* the arguments of the run() call in progress
    gen,            \* the generate_tiles generator in use
    tile,           \* the tile last yielded to a direct caller of generate_tiles
    yielded,        \* the coordinates of the tiles yielded to that caller, in order
    futures,        \* processed_tile_futures of run()
    jobs,           \* the jobs the worker pool holds, by future
    done_queue,     \* futures in the order their jobs completed
    collected,      \* futures in the order run() collected them
    outcome,        \* how the last call ended
    calls,          \* number of run() calls made so far
    item,           \* what the last lookup in the dataset view returned
    pool_made       \* whether the last call of run() created a worker pool

vars == <<slide, masks, labels, tiles, store, tile_dataset, pc, args, gen, tile,
          yielded, futures, jobs, done_queue, collected, outcome, calls, item,
          pool_made>>

----------------------------------------------------------------------------
(* Bounds of the model *)

\* the enumerator specification draws slides of 1..MaxDim by 1..MaxDim pixels
MaxDim == 10
\* requested tile sizes are 0..MaxShape (0 is the non-positive size)
MaxShape == 4
\* requested strides are None or 0..MaxStride
MaxStride == 4
\* the dispatch specification's slide is 1 pixel high and MaxWidth pixels wide
MaxWidth == 2
\* the dispatch specification makes at most MaxCalls calls of run()
MaxCalls == 2

----------------------------------------------------------------------------
(* Values *)

None == <<>>
Some(x) == <<x>>

Min(a, b) == IF a <= b THEN a ELSE b
Max(a, b) == IF a >= b THEN a ELSE b

\* an array-like mask of h by w pixels; pixel (r, c) of mask number n holds a
\* value that identifies both the mask and the pixel
SourceArray(n, h, w) ==
    [shape |-> <<h, w>>,
     px |-> [p \in (0..(h - 1)) \X (0..(w - 1)) |-> n * 1000 + p[1] * 100 + p[2]]]

\* the slide-level Masks of an h by w slide: two masks aligned to the slide
SourceMasks(h, w) ==
    {[key |-> "tumor", data |-> SourceArray(1, h, w)],
     [key |-> "stroma", data |-> SourceArray(2, h, w)]}

\* the slide-level labels: one mapping object, known by its identity
SourceLabels == [id |-> "slide", entries |-> {[key |-> "grade", value |-> 3]}]

\* labels a backend put on a tile of its own
OwnLabels == [id |-> "tile", entries |-> {[key |-> "region", value |-> 1]}]

MaskKeys(m) == {e.key : e \in m}

\* a[r0:r1, c0:c1], with Python's clipping of the bounds to the array
ArraySlice(a, r0, r1, c0, c1) ==
    LET h == a.shape[1]
        w == a.shape[2]
        rr0 == Min(r0, h)
        rr1 == Min(r1, h)
        cc0 == Min(c0, w)
        cc1 == Min(c1, w)
        n == Max(rr1 - rr0, 0)
        m == Max(cc1 - cc0, 0)
    IN [shape |-> <<n, m>>,
        px |-> [p \in (0..(n - 1)) \X (0..(m - 1)) |->
                    a.px[<<rr0 + p[1], cc0 + p[2]>>]]]

\* Masks.slice: the same sub-region of every mask, under the same keys
Masks_slice(m, tile_slices) ==
    {[key |-> e.key,
      data |-> ArraySlice(e.data, tile_slices[1][1], tile_slices[1][2],
                          tile_slices[2][1], tile_slices[2][2])] : e \in m}

\* a Tile as the backend builds it: pixel extent, optional coordinate, no
\* masks, no labels, no slide type
Tile(image, coords) ==
    [image |-> image, coords |-> coords, masks |-> {}, labels |-> None,
     slidetype |-> None, processed |-> FALSE]

----------------------------------------------------------------------------
(* The slide backend *)

GridSlide(h, w) == [backend |-> "grid", h |-> h, w |-> w, script |-> <<>>]

\* backends that do their own tiling and ignore the requested shape
ScriptFixed ==
    <<Tile(<<1, 2>>, Some(<<0, 0>>)), Tile(<<1, 2>>, Some(<<1, 1>>)),
      Tile(<<1, 1>>, Some(<<1, 0>>))>>
ScriptNoCoords ==
    <<Tile(<<1, 1>>, None), Tile(<<1, 1>>, None)>>
ScriptSameCoords ==
    <<Tile(<<1, 1>>, Some(<<0, 0>>)), Tile(<<1, 1>>, Some(<<0, 0>>))>>
ScriptWithMasks ==
    <<Tile(<<1, 1>>, Some(<<0, 0>>)),
      [Tile(<<1, 1>>, Some(<<0, 1>>)) EXCEPT
          !.masks = {[key |-> "own", data |-> SourceArray(9, 1, 1)]},
          !.labels = Some(OwnLabels)]>>

CustomSlide(script) == [backend |-> "custom", h |-> 2, w |-> 3, script |-> script]

CustomSlides ==
    {CustomSlide(s) : s \in {ScriptFixed, ScriptNoCoords, ScriptSameCoords,
                             ScriptWithMasks}}

\* stride = None means stride = shape
EffStride(shape, stride) == IF stride = None THEN shape ELSE stride[1]

\* shape and stride must be positive and the level must exist
Backend_valid(sl, shape, stride, level) ==
    /\ shape > 0
    /\ EffStride(shape, stride) > 0
    /\ level = 0

\* the tile origins along one axis of dim pixels
Origins(dim, shape, st, pad) ==
    {k * st : k \in {k \in 0..(dim - 1) :
                        /\ k * st < dim
                        /\ (pad \/ k * st + shape <= dim)}}

\* number of tiles the backend yields
Backend_count(sl, shape, stride, pad) ==
    IF sl.backend = "custom" THEN Len(sl.script)
    ELSE LET st == EffStride(shape, stride)
         IN Cardinality(Origins(sl.h, shape, st, pad))
              * Cardinality(Origins(sl.w, shape, st, pad))

\* the k-th tile the backend yields, k = 0, 1, ..., in row-major order
Backend_tile(sl, shape, stride, pad, k) ==
    IF sl.backend = "custom" THEN sl.script[k + 1]
    ELSE LET st == EffStride(shape, stride)
             nj == Cardinality(Origins(sl.w, shape, st, pad))
         IN Tile(<<shape, shape>>, Some(<<(k \div nj) * st, (k % nj) * st>>))

----------------------------------------------------------------------------
(* SlideData.generate_tiles *)

\* a slip: the pad policy is not handed on, the backend always pads
BackendArgs_AlwaysPad(g) ==
    [shape |-> g.shape, stride |-> g.stride, pad |-> TRUE, level |-> g.level]

\* a slip: the pad policy is not handed on, the backend never pads
BackendArgs_NeverPad(g) ==
    [shape |-> g.shape, stride |-> g.stride, pad |-> FALSE, level |-> g.level]

\* the arguments SlideData.generate_tiles hands to the backend
BackendArgs(g) ==
    [shape |-> g.shape, stride |-> g.stride, pad |-> g.pad, level |-> g.level]

\* a slip: the pad policy is not looked at
AttachesMasks_IgnoringPad(t, pad) == masks # None /\ t.coords # None

\* masks are attached when the aggregate has masks, the tile has coordinates
\* and pad is off
AttachesMasks(t, pad) == masks # None /\ t.coords # None /\ ~pad

\* a slip: the safety check is left out
MaskGuardFails_Never(t) == FALSE

\* the safety check: the backend's tile must not carry masks already
MaskGuardFails(t) == Cardinality(t.masks) # 0

\* a slip: the extent is taken from the requested shape
tile_slices_Requested(t) ==
    LET i == t.coords[1][1]
        j == t.coords[1][2]
    IN <<<<i, i + gen.shape>>, <<j, j + gen.shape>>>>

\* [slice(i, i + di), slice(j, j + dj)] from the tile's own pixel data
tile_slices(t) ==
    LET i == t.coords[1][1]
        j == t.coords[1][2]
        di == t.image[1]
        dj == t.image[2]
    IN <<<<i, i + di>>, <<j, j + dj>>>>

AttachMasks(t, pad) ==
    IF AttachesMasks(t, pad)
    THEN [t EXCEPT !.masks = Masks_slice(masks[1], tile_slices(t))]
    ELSE t

\* a slip: each tile gets a copy of the mapping, equal in content
AttachLabels_Copy(t) ==
    IF labels # None
    THEN [t EXCEPT !.labels = Some([labels[1] EXCEPT !.id = "copy"])]
    ELSE t

\* tile.labels = self.labels: the tile refers to the aggregate's mapping
AttachLabels(t) == IF labels # None THEN [t EXCEPT !.labels = labels] ELSE t

AttachSlideType(t) ==
    IF t.slidetype = None THEN [t EXCEPT !.slidetype = Some("SlideData")] ELSE t

NoGen ==
    [state |-> "none", shape |-> 0, stride |-> None, pad |-> FALSE, level |-> 0,
     pos |-> 0]

NewGen(shape, stride, pad, level) ==
    [state |-> "active", shape |-> shape, stride |-> stride, pad |-> pad,
     level |-> level, pos |-> 0]

\* one resumption of the generator g: the generator afterwards and the tile
\* it yields, if it yields one
generate_tiles_step(g) ==
    LET a == BackendArgs(g)
    IN IF ~Backend_valid(slide[1], a.shape, a.stride, a.level)
       THEN [gen |-> [g EXCEPT !.state = "ConfigurationError"], out |-> None]
       ELSE IF g.pos >= Backend_count(slide[1], a.shape, a.stride, a.pad)
       THEN [gen |-> [g EXCEPT !.state = "exhausted"], out |-> None]
       ELSE LET raw == Backend_tile(slide[1], a.shape, a.stride, a.pad, g.pos)
            IN IF AttachesMasks(raw, g.pad) /\ MaskGuardFails(raw)
               THEN [gen |-> [g EXCEPT !.state = "ConsistencyError"], out |-> None]
               ELSE [gen |-> [g EXCEPT !.pos = g.pos + 1],
                     out |-> Some(AttachSlideType(AttachLabels(
                                    AttachMasks(raw, g.pad))))]

Shapes == 0..MaxShape
Strides == {None} \cup {Some(s) : s \in 0..MaxStride}
Levels == {0, 1}

NoArgs == [pipeline_ok |-> TRUE, overwrite |-> FALSE]

\* a caller starts the enumerator directly
generate_tiles_call ==
    /\ gen.state = "none"
    /\ slide # None
    /\ \E shape \in Shapes, stride \in Strides, pad \in BOOLEAN, level \in Levels :
          gen' = NewGen(shape, stride, pad, level)
    /\ UNCHANGED <<slide, yielded, masks, labels, tiles, store, tile_dataset, pc, args, tile,
                   futures, jobs, done_queue, collected, outcome, calls, item,
                   pool_made>>

\* the caller asks the enumerator for its next tile
generate_tiles_next ==
    /\ gen.state = "active"
    /\ pc = "idle"
    /\ LET r == generate_tiles_step(gen)
       IN /\ gen' = r.gen
          /\ tile' = IF r.out # None THEN r.out ELSE tile
          /\ yielded' = IF r.out # None THEN Append(yielded, r.out[1].coords)
                        ELSE yielded
    /\ UNCHANGED <<slide, masks, labels, tiles, store, tile_dataset, pc, args,
                   futures, jobs, done_queue, collected, outcome, calls, item,
                   pool_made>>

InitRest ==
    /\ tile_dataset = None
    /\ store = <<>>
    /\ pc = "idle"
    /\ args = NoArgs
    /\ gen = NoGen
    /\ tile = None
    /\ yielded = <<>>
    /\ futures = <<>>
    /\ jobs = <<>>
    /\ done_queue = <<>>
    /\ collected = <<>>
    /\ outcome = "none"
    /\ calls = 0
    /\ item = None
    /\ pool_made = FALSE

\* an aggregate constructed around a slide, with or without masks and labels
GenInit ==
    /\ slide \in {Some(GridSlide(h, w)) : h \in 1..MaxDim, w \in 1..MaxDim}
                 \cup {Some(s) : s \in CustomSlides}
    /\ masks \in {None, Some(SourceMasks(slide[1].h, slide[1].w))}
    /\ labels \in {None, Some(SourceLabels)}
    /\ tiles = None
    /\ InitRest

GenNext == generate_tiles_call \/ generate_tiles_next

GenSpec == GenInit /\ [][GenNext]_vars

----------------------------------------------------------------------------
(* The Tiles container and the dataset view *)

\* the key of a tile in the container: its coordinate, or a sequential key
\* when it has none
Tiles_key(c, t) ==
    IF t.coords # None THEN [coords |-> t.coords, seq |-> 0]
    ELSE [coords |-> None, seq |-> Len(c) + 1]

\* Tiles.add: the tile takes the next slot of the container
Tiles_add(c, t, src) == Append(c, [key |-> Tiles_key(c, t), tile |-> t, src |-> src])

Tiles_len(c) == Len(c)

\* positional lookup, 0-based
Tiles_getitem(c, ix) == c[ix + 1].tile

\* a slip: the view is built without the slide's labels
create_tile_dataset_NoLabels == [tiles |-> tiles, labels |-> None]

\* TileDataset.__init__: the view keeps the aggregate's container and labels
create_tile_dataset == [tiles |-> tiles, labels |-> labels]

TileDataset_len(ds) == Tiles_len(store[ds.tiles[1]])

TileDataset_getitem(ds, ix) == <<Tiles_getitem(store[ds.tiles[1]], ix), ds.labels>>

\* the containers something still refers to
Live(st, t, ds) ==
    LET keep == {i \in DOMAIN st : t = Some(i) \/ (ds # None /\ ds[1].tiles = Some(i))}
    IN [i \in keep |-> st[i]]

\* pipeline.apply(tile)
pipeline_apply(t) == [t EXCEPT !.processed = TRUE]

----------------------------------------------------------------------------
(* SlideData.run *)

\* the tilings run() is called with: sizes 0..2, stride None or 2, both pad
\* policies, on level 0 and without a client; and, for one tiling, a call on
\* a level the slide does not have and a call with the caller's own client
RunConfigs ==
    {c \in [shape : {0, 1, 2}, stride : {None, Some(2)}, pad : BOOLEAN, level : Levels,
            client : {None, Some("client")}] :
        \/ c.level = 0 /\ c.client = None
        \/ c.shape = 1 /\ c.stride = None /\ ~c.pad /\ (c.level = 0 \/ c.client = None)}

\* run() creates a dask client when the caller gave none
CreatesPool(client) == client = None

\* a slip: the new container starts from the old one's entries
FreshTiles_KeepingOld == IF tiles = None THEN <<>> ELSE store[tiles[1]]

\* pathml.core.tiles.Tiles(): a new, empty container
FreshTiles == <<>>

\* a slip: the existing container is replaced whatever the caller asked
ReplacesTiles_Always(overwrite) == TRUE

\* a slip: an existing container is also replaced when it is empty
ReplacesTiles_WhenEmpty(overwrite) ==
    tiles = None \/ overwrite \/ Len(store[tiles[1]]) = 0

\* run() replaces self.tiles by a new container
ReplacesTiles(overwrite) == tiles = None \/ overwrite

\* a slip: only the slide is checked, any object passes for a pipeline
AssertsFail_SlideOnly(pipeline_ok) == slide = None

\* the two assertions at the head of run(): a Pipeline and a slide
AssertsFail(pipeline_ok) == ~pipeline_ok \/ slide = None

\* the checks at the head of run(), up to the creation of the generator
run_entry ==
    /\ pc = "idle"
    /\ gen.state = "none"
    /\ calls < MaxCalls
    /\ calls' = calls + 1
    /\ item' = None
    /\ \E pipeline_ok \in BOOLEAN, overwrite \in BOOLEAN, c \in RunConfigs :
          /\ args' = [pipeline_ok |-> pipeline_ok, overwrite |-> overwrite]
          /\ IF AssertsFail(pipeline_ok)
             THEN /\ outcome' = "AssertionError"
                  /\ pool_made' = FALSE
                  /\ UNCHANGED <<tiles, store, pc, gen, futures, jobs, done_queue,
                                 collected>>
             ELSE IF ReplacesTiles(overwrite)
             THEN /\ tiles' = Some(calls')
                  /\ store' = Live([i \in DOMAIN store \cup {calls'} |->
                                       IF i = calls' THEN FreshTiles ELSE store[i]],
                                   tiles', tile_dataset)
                  /\ pool_made' = CreatesPool(c.client)
                  /\ pc' = "submit"
                  /\ gen' = NewGen(c.shape, c.stride, c.pad, c.level)
                  /\ futures' = <<>>
                  /\ jobs' = <<>>
                  /\ done_queue' = <<>>
                  /\ collected' = <<>>
                  /\ outcome' = "running"
             ELSE /\ outcome' = "AlreadyPopulated"
                  /\ pool_made' = FALSE
                  /\ UNCHANGED <<tiles, store, pc, gen, futures, jobs, done_queue,
                                 collected>>
    /\ UNCHANGED <<slide, yielded, masks, labels, tile_dataset, tile>>

\* a slip: the tile is handed to two jobs
run_submit_Twice ==
    /\ pc = "submit"
    /\ LET r == generate_tiles_step(gen)
       IN /\ r.out # None
          /\ gen' = r.gen
          /\ jobs' = jobs \o << [tile |-> r.out[1], status |-> "pending"],
                               [tile |-> r.out[1], status |-> "pending"] >>
          /\ futures' = futures \o <<Len(jobs) + 1, Len(jobs) + 2>>
    /\ UNCHANGED <<slide, yielded, masks, labels, tiles, store, tile_dataset, pc, args, tile,
                   done_queue, collected, outcome, calls, item,
                   pool_made>>

\* one turn of the submission loop: the next tile is submitted to the pool
run_submit ==
    /\ pc = "submit"
    /\ LET r == generate_tiles_step(gen)
       IN /\ r.out # None
          /\ gen' = r.gen
          /\ jobs' = Append(jobs, [tile |-> r.out[1], status |-> "pending"])
          /\ futures' = Append(futures, Len(jobs) + 1)
    /\ UNCHANGED <<slide, yielded, masks, labels, tiles, store, tile_dataset, pc, args, tile,
                   done_queue, collected, outcome, calls, item,
                   pool_made>>

\* the generator is exhausted: the submission loop ends
run_submit_done ==
    /\ pc = "submit"
    /\ generate_tiles_step(gen).gen.state = "exhausted"
    /\ pc' = "collect"
    /\ gen' = NoGen
    /\ UNCHANGED <<slide, yielded, masks, labels, tiles, store, tile_dataset, args, tile,
                   futures, jobs, done_queue, collected, outcome, calls, item,
                   pool_made>>

\* the generator raises: run() ends with that error
run_enum_error ==
    /\ pc = "submit"
    /\ LET r == generate_tiles_step(gen)
       IN /\ r.gen.state \in {"ConfigurationError", "ConsistencyError"}
          /\ outcome' = r.gen.state
    /\ pc' = "idle"
    /\ gen' = NoGen
    /\ futures' = <<>>
    /\ UNCHANGED <<slide, yielded, masks, labels, tiles, store, tile_dataset, args, tile,
                   jobs, done_queue, collected, calls, item,
                   pool_made>>

\* a worker finishes a job of the pool, with a result or with an exception
job_finish ==
    \E f \in DOMAIN jobs, ok \in BOOLEAN :
        /\ jobs[f].status = "pending"
        /\ jobs' = [jobs EXCEPT ![f].status = IF ok THEN "finished" ELSE "error"]
        /\ done_queue' = Append(done_queue, f)
        /\ UNCHANGED <<slide, yielded, masks, labels, tiles, store, tile_dataset, pc, args,
                       gen, tile, futures, collected, outcome, calls, item,
                   pool_made>>

\* as_completed has another completed future to hand out
HasCompleted == Len(done_queue) > Len(collected)

\* the future as_completed hands out next
NextCompleted == done_queue[Len(collected) + 1]

\* a slip: a result whose coordinate is already in the container is dropped
run_collect_Deduplicating ==
    /\ pc = "collect"
    /\ HasCompleted
    /\ jobs[NextCompleted].status = "finished"
    /\ store' = [store EXCEPT ![tiles[1]] =
                    IF \E k \in DOMAIN @ : @[k].tile.coords = jobs[NextCompleted].tile.coords
                    THEN @
                    ELSE Tiles_add(@, pipeline_apply(jobs[NextCompleted].tile),
                                   <<calls, NextCompleted>>)]
    /\ collected' = Append(collected, NextCompleted)
    /\ UNCHANGED <<slide, yielded, masks, labels, tiles, tile_dataset, pc, args, gen, tile,
                   futures, jobs, done_queue, outcome, calls, item,
                   pool_made>>

\* a slip: results are added while tiles are still being submitted
run_collect_Eager ==
    /\ pc \in {"submit", "collect"}
    /\ HasCompleted
    /\ jobs[NextCompleted].status = "finished"
    /\ store' = [store EXCEPT ![tiles[1]] =
                    Tiles_add(@, pipeline_apply(jobs[NextCompleted].tile),
                              <<calls, NextCompleted>>)]
    /\ collected' = Append(collected, NextCompleted)
    /\ UNCHANGED <<slide, yielded, masks, labels, tiles, tile_dataset, pc, args, gen, tile,
                   futures, jobs, done_queue, outcome, calls, item,
                   pool_made>>

\* one turn of the collection loop: the next completed result is added
run_collect ==
    /\ pc = "collect"
    /\ HasCompleted
    /\ jobs[NextCompleted].status = "finished"
    /\ store' = [store EXCEPT ![tiles[1]] =
                    Tiles_add(@, pipeline_apply(jobs[NextCompleted].tile),
                              <<calls, NextCompleted>>)]
    /\ collected' = Append(collected, NextCompleted)
    /\ UNCHANGED <<slide, yielded, masks, labels, tiles, tile_dataset, pc, args, gen, tile,
                   futures, jobs, done_queue, outcome, calls, item,
                   pool_made>>

\* a slip: the failed job is skipped and collection goes on
run_job_failure_Swallowing ==
    /\ pc = "collect"
    /\ HasCompleted
    /\ jobs[NextCompleted].status = "error"
    /\ collected' = Append(collected, NextCompleted)
    /\ UNCHANGED <<slide, yielded, masks, labels, tiles, store, tile_dataset, pc, args,
                   gen, tile, futures, jobs, done_queue, outcome, calls, item,
                   pool_made>>

\* the next completed job raised: as_completed re-raises and run() ends
run_job_failure ==
    /\ pc = "collect"
    /\ HasCompleted
    /\ jobs[NextCompleted].status = "error"
    /\ pc' = "idle"
    /\ outcome' = "JobFailure"
    /\ futures' = <<>>
    /\ UNCHANGED <<slide, yielded, masks, labels, tiles, store, tile_dataset, args, gen,
                   tile, jobs, done_queue, collected, calls, item,
                   pool_made>>

\* a slip: collection stops as soon as no completed future is waiting
run_finish_NotWaiting ==
    /\ pc = "collect"
    /\ ~HasCompleted
    /\ tile_dataset' = Some(create_tile_dataset)
    /\ store' = Live(store, tiles, tile_dataset')
    /\ pc' = "idle"
    /\ outcome' = "ok"
    /\ UNCHANGED <<slide, yielded, masks, labels, tiles, args, gen, tile, futures, jobs,
                   done_queue, collected, calls, item,
                   pool_made>>

\* every future was collected: the dataset view is created and run() returns
run_finish ==
    /\ pc = "collect"
    /\ Len(collected) = Len(futures)
    /\ tile_dataset' = Some(create_tile_dataset)
    /\ store' = Live(store, tiles, tile_dataset')
    /\ pc' = "idle"
    /\ outcome' = "ok"
    /\ UNCHANGED <<slide, yielded, masks, labels, tiles, args, gen, tile, futures, jobs,
                   done_queue, collected, calls, item,
                   pool_made>>

\* a consumer looks up one position of the dataset view
dataset_getitem ==
    /\ pc = "idle"
    /\ tile_dataset # None
    /\ \E ix \in 0..(TileDataset_len(tile_dataset[1]) - 1) :
          item' = Some(TileDataset_getitem(tile_dataset[1], ix))
    /\ UNCHANGED <<slide, yielded, masks, labels, tiles, store, tile_dataset, pc, args, gen,
                   tile, futures, jobs, done_queue, collected, outcome, calls,
                   pool_made>>

\* an aggregate as constructed: headless or around a small slide, with or
\* without masks, labels and an (empty) Tiles container
Init ==
    /\ slide \in {None, Some(GridSlide(1, MaxWidth)),
                  Some(CustomSlide(ScriptFixed)),
                  Some(CustomSlide(ScriptSameCoords)),
                  Some(CustomSlide(ScriptWithMasks))}
    /\ masks \in {None, Some(IF slide = None THEN SourceMasks(1, 1)
                             ELSE SourceMasks(slide[1].h, slide[1].w))}
    /\ labels \in {None, Some(SourceLabels)}
    /\ tiles \in {None, Some(0)}
    /\ store = IF tiles = None THEN <<>> ELSE [i \in {0} |-> <<>>]
    /\ tile_dataset = None
    /\ pc = "idle"
    /\ args = NoArgs
    /\ gen = NoGen
    /\ tile = None
    /\ yielded = <<>>
    /\ futures = <<>>
    /\ jobs = <<>>
    /\ done_queue = <<>>
    /\ collected = <<>>
    /\ outcome = "none"
    /\ calls = 0
    /\ item = None
    /\ pool_made = FALSE

Next ==
    \/ run_entry
    \/ run_submit
    \/ run_submit_done
    \/ run_enum_error
    \/ job_finish
    \/ run_collect
    \/ run_job_failure
    \/ run_finish
    \/ dataset_getitem

Spec == Init /\ [][Next]_vars

\* the step run() takes next, once it is past its entry checks
run_step ==
    \/ run_submit
    \/ run_submit_done
    \/ run_enum_error
    \/ run_collect
    \/ run_job_failure
    \/ run_finish

\* run() is sequential code that goes on whenever it can
RunProceeds == WF_vars(run_step)

\* the pool completes every job it was given
JobsComplete == WF_vars(job_finish)

FairSpec == Init /\ [][Next]_vars /\ RunProceeds /\ JobsComplete

----------------------------------------------------------------------------
(* Properties of the tile enumerator, checked under GenSpec *)

Ceil(a, b) == (a + b - 1) \div b

IsGrid == slide # None /\ slide[1].backend = "grid"

\* the generator runs on a valid configuration
GenRuns == gen.state \in {"active", "exhausted"}

\* the set of coordinates yielded so far
YieldedSet == {yielded[k][1] : k \in DOMAIN yielded}

\* the yielded coordinates are pairwise distinct
YieldedDistinct == Cardinality(YieldedSet) = Len(yielded)

\* the positions of the stride grid whose tile of the requested shape fits
\* inside an h by w source
FittingPositions(h, w, shape, st) ==
    {c \in {<<a * st, b * st>> : a \in 0..h, b \in 0..w} :
        c[1] + shape <= h /\ c[2] + shape <= w}

\* the mask e is the region of the source mask m under the tile t
IsRegionOf(e, m, t) ==
    LET i == t.coords[1][1]
        j == t.coords[1][2]
        di == t.image[1]
        dj == t.image[2]
    IN /\ e.key = m.key
       /\ e.data.shape = <<di, dj>>
       /\ DOMAIN e.data.px = (0..(di - 1)) \X (0..(dj - 1))
       /\ \A p \in (0..(di - 1)) \X (0..(dj - 1)) :
             e.data.px[p] = m.data.px[<<i + p[1], j + p[2]>>]

\* C7: with pad off and slide-level masks present, a yielded tile with
\* coordinate (i, j) and pixel extent (di, dj) carries masks under exactly the
\* slide-level keys, each the source mask's region [i, i+di) x [j, j+dj), of
\* shape (di, dj), the extent being that of the tile's own pixel data.
C7_MaskCoSlicing ==
    (tile # None /\ GenRuns /\ ~gen.pad /\ masks # None /\ tile[1].coords # None) =>
        /\ MaskKeys(tile[1].masks) = MaskKeys(masks[1])
        /\ Cardinality(tile[1].masks) = Cardinality(masks[1])
        /\ \A e \in tile[1].masks :
              \E m \in masks[1] : IsRegionOf(e, m, tile[1])

\* a tile whose extent differs from the requested shape, away from the
\* origin, got both slide-level masks
C7_Witness ==
    /\ tile # None /\ ~gen.pad /\ masks # None
    /\ tile[1].coords = Some(<<1, 1>>)
    /\ tile[1].image = <<1, 2>>
    /\ gen.shape = 1
    /\ Cardinality(tile[1].masks) = 2

\* C8: when the aggregate has no masks, or the tile has no coordinate, or pad
\* is on, the yielded tile's masks are those the backend produced; a tile
\* enumerated with pad on never carries a slice of the slide-level masks.
C8_MaskAttachNoOp ==
    (tile # None /\ gen.pos > 0) =>
        /\ (masks = None \/ tile[1].coords = None \/ gen.pad) =>
              tile[1].masks =
                  Backend_tile(slide[1], gen.shape, gen.stride, gen.pad, gen.pos - 1).masks
        /\ gen.pad => \A e \in tile[1].masks : e.key \notin {"tumor", "stroma"}

\* with pad on and slide-level masks present, a tile with a coordinate was
\* yielded with the masks its backend gave it
C8_Witness ==
    /\ tile # None /\ gen.pad /\ masks # None
    /\ tile[1].coords # None
    /\ MaskKeys(tile[1].masks) = {"own"}

\* C9: with pad off, every tile of the grid has exactly the requested extent
\* and lies inside the source; the positions whose tile would exceed the
\* bounds are dropped and the others are all yielded, once each.  A 10 x 10
\* image with shape 4 and stride 4 yields exactly (0,0), (0,4), (4,0), (4,4).
C9_PadOffTiles ==
    (IsGrid /\ GenRuns /\ ~gen.pad) =>
        LET h == slide[1].h
            w == slide[1].w
            st == EffStride(gen.shape, gen.stride)
        IN /\ tile # None =>
                /\ tile[1].image = <<gen.shape, gen.shape>>
                /\ tile[1].coords # None
                /\ tile[1].coords[1][1] >= 0
                /\ tile[1].coords[1][2] >= 0
                /\ tile[1].coords[1][1] + tile[1].image[1] <= h
                /\ tile[1].coords[1][2] + tile[1].image[2] <= w
           /\ YieldedDistinct
           /\ YieldedSet \subseteq FittingPositions(h, w, gen.shape, st)
           /\ gen.state = "exhausted" =>
                YieldedSet = FittingPositions(h, w, gen.shape, st)
           /\ (gen.state = "exhausted" /\ h = 10 /\ w = 10 /\ gen.shape = 4 /\ st = 4) =>
                /\ YieldedSet = {<<0, 0>>, <<0, 4>>, <<4, 0>>, <<4, 4>>}
                /\ Len(yielded) = 4

\* the 10 x 10 image was tiled with shape 4, stride 4, pad off, to the end
C9_Witness ==
    /\ IsGrid /\ ~gen.pad /\ gen.state = "exhausted"
    /\ slide[1].h = 10 /\ slide[1].w = 10
    /\ gen.shape = 4 /\ gen.stride = Some(4)
    /\ Len(yielded) = 4

\* C10: with pad on, every tile of the grid has the requested extent, its
\* coordinate is its origin on the stride grid inside the source, and the
\* number of tiles along each axis is ceil(dimension / stride).  A 10 x 10
\* image with shape 4 and stride 4 yields 9 tiles on {0,4,8} x {0,4,8}.
C10_PadOnTiles ==
    (IsGrid /\ GenRuns /\ gen.pad) =>
        LET h == slide[1].h
            w == slide[1].w
            st == EffStride(gen.shape, gen.stride)
        IN /\ tile # None =>
                /\ tile[1].image = <<gen.shape, gen.shape>>
                /\ tile[1].coords # None
                /\ tile[1].coords[1][1] \in 0..(h - 1)
                /\ tile[1].coords[1][2] \in 0..(w - 1)
                /\ tile[1].coords[1][1] % st = 0
                /\ tile[1].coords[1][2] % st = 0
           /\ YieldedDistinct
           /\ gen.state = "exhausted" =>
                /\ Cardinality({c[1] : c \in YieldedSet}) = Ceil(h, st)
                /\ Cardinality({c[2] : c \in YieldedSet}) = Ceil(w, st)
                /\ Len(yielded) = Ceil(h, st) * Ceil(w, st)
           /\ (gen.state = "exhausted" /\ h = 10 /\ w = 10 /\ gen.shape = 4 /\ st = 4) =>
                /\ YieldedSet = {0, 4, 8} \X {0, 4, 8}
                /\ Len(yielded) = 9

\* the 10 x 10 image was tiled with shape 4, stride 4, pad on, to the end
C10_Witness ==
    /\ IsGrid /\ gen.pad /\ gen.state = "exhausted"
    /\ slide[1].h = 10 /\ slide[1].w = 10
    /\ gen.shape = 4 /\ gen.stride = Some(4)
    /\ Len(yielded) = 9

----------------------------------------------------------------------------
(* Properties of run(), checked under Spec *)

\* the container self.tiles refers to
Container == store[tiles[1]]

\* the last call of run() went past its checks: it is in progress or ended
\* in the given way
RunSucceeded == pc = "idle" /\ outcome = "ok"
RunFailedOnJob == pc = "idle" /\ outcome = "JobFailure"

\* the step is a call of run()
RunCalled == calls' = calls + 1

\* the call is not stopped by the assertions on the pipeline and the slide
PassesAssertions == args'.pipeline_ok /\ slide # None

\* the enumerated tiles have pairwise distinct coordinates
JobCoordsDistinct ==
    \A f \in DOMAIN jobs : \A g \in DOMAIN jobs :
        /\ jobs[f].tile.coords # None
        /\ f # g => jobs[f].tile.coords # jobs[g].tile.coords

\* entry k of the container is the result of the job of future f of this call
IsResultOf(e, f) ==
    /\ e.src = <<calls, f>>
    /\ f \in DOMAIN jobs
    /\ e.tile = pipeline_apply(jobs[f].tile)

\* C1: after a run whose N enumerated tiles have pairwise distinct coordinates
\* and whose jobs all succeeded, in whatever order they completed, the
\* container holds exactly N entries, one per enumerated tile, and no key
\* appears twice.
C1_OneEntryPerTile ==
    (RunSucceeded /\ JobCoordsDistinct) =>
        /\ Len(Container) = Len(jobs)
        /\ {Container[k].src[2] : k \in DOMAIN Container} = DOMAIN jobs
        /\ \A k \in DOMAIN Container : IsResultOf(Container[k], Container[k].src[2])
        /\ \A k \in DOMAIN Container : \A l \in DOMAIN Container :
              k # l => Container[k].key # Container[l].key

\* three tiles with distinct coordinates were processed and the job submitted
\* last completed first
C1_Witness ==
    /\ RunSucceeded /\ JobCoordsDistinct
    /\ Len(jobs) = 3
    /\ done_queue = <<3, 1, 2>>

\* C2: run() without overwrite on an aggregate whose container is non-empty
\* ends with the already-populated error at once: no tile is enumerated, no
\* job is submitted, and the container and the dataset view stay as they were.
C2_PopulatedRejected ==
    [][(/\ RunCalled
        /\ PassesAssertions
        /\ ~args'.overwrite
        /\ tiles # None
        /\ Len(Container) > 0)
       => /\ outcome' = "AlreadyPopulated"
          /\ pc' = "idle"
          /\ UNCHANGED <<tiles, store, tile_dataset, gen, futures, jobs, done_queue>>]_vars

\* a call without overwrite was rejected on a populated aggregate that has a
\* dataset view
C2_Witness ==
    /\ outcome = "AlreadyPopulated"
    /\ ~args.overwrite
    /\ tiles # None
    /\ Len(Container) > 0
    /\ tile_dataset # None

\* C3: once run() is called with overwrite, the container is empty before the
\* first job is submitted and every entry it holds from then on is the result
\* of a job submitted by that call, never an entry of an earlier call.
C3_OverwriteDiscards ==
    (args.overwrite
        /\ outcome \in {"running", "ok", "JobFailure", "ConfigurationError",
                        "ConsistencyError"}) =>
        /\ Len(jobs) = 0 => Len(Container) = 0
        /\ \A k \in DOMAIN Container : IsResultOf(Container[k], Container[k].src[2])

\* a second call, with overwrite, is collecting results while the dataset view
\* still holds the populated container of the first call
C3_Witness ==
    /\ args.overwrite
    /\ pc = "collect"
    /\ Len(Container) > 0
    /\ tile_dataset # None
    /\ tile_dataset[1].tiles # tiles
    /\ Len(store[tile_dataset[1].tiles[1]]) > 0

\* C4: when a job raises, run() ends with that failure and no job's failure is
\* ever passed over: afterwards the container holds exactly the results
\* collected before the failure, whatever the other jobs do later, and the
\* dataset view is not one of that call.
C4_JobFailureSurfaces ==
    /\ RunFailedOnJob =>
          /\ Len(Container) = Len(collected)
          /\ \A k \in DOMAIN Container : IsResultOf(Container[k], collected[k])
          /\ jobs[done_queue[Len(collected) + 1]].status = "error"
          /\ tile_dataset = None \/ tile_dataset[1].tiles # tiles
    /\ RunSucceeded => \A f \in DOMAIN jobs : jobs[f].status = "finished"
    /\ \A k \in DOMAIN collected : jobs[collected[k]].status = "finished"

\* one result was collected, then a job failed, and the third job finished
\* with a result after the failure
C4_Witness ==
    /\ RunFailedOnJob
    /\ Len(collected) = 1
    /\ Len(done_queue) = 3
    /\ jobs[done_queue[3]].status = "finished"

\* C5 as stated: run() without overwrite is rejected as already populated only
\* when the existing container is non-empty.
C5_RejectedOnlyNonEmpty ==
    outcome = "AlreadyPopulated" => Len(Container) > 0

\* C5, amended: run() without overwrite is rejected as already populated
\* exactly when the aggregate holds a container, empty or not; it is
\* dispatched only when the aggregate holds none.
C5_RejectedWhenPresent ==
    [][(RunCalled /\ PassesAssertions /\ ~args'.overwrite)
       => /\ (outcome' = "AlreadyPopulated") <=> (tiles # None)
          /\ (pc' = "submit") <=> (tiles = None)]_vars

\* after a run that enumerated no tile, a call without overwrite was rejected
\* on the empty container
C5_Witness ==
    /\ outcome = "AlreadyPopulated"
    /\ ~args.overwrite
    /\ calls = 2
    /\ tile_dataset # None
    /\ Len(Container) = 0

\* C6: after a successful run the dataset view is as long as the container
\* and position k holds the pair of the k-th tile in the order the jobs
\* completed and the slide's labels; a lookup changes no container.
C6_DatasetView ==
    /\ [](RunSucceeded =>
            /\ tile_dataset # None
            /\ TileDataset_len(tile_dataset[1]) = Len(Container)
            /\ TileDataset_len(tile_dataset[1]) = Len(done_queue)
            /\ \A k \in 0..(Len(done_queue) - 1) :
                  TileDataset_getitem(tile_dataset[1], k) =
                      <<pipeline_apply(jobs[done_queue[k + 1]].tile), labels>>)
    /\ [][(item' # item /\ item' # None) =>
            /\ UNCHANGED <<tiles, store, tile_dataset>>
            /\ RunSucceeded =>
                  \E k \in 0..(Len(done_queue) - 1) :
                      item' = Some(<<pipeline_apply(jobs[done_queue[k + 1]].tile),
                                     labels>>)]_vars

\* the view of a run whose jobs completed out of submission order was read at
\* its last position, with the slide's labels
C6_Witness ==
    /\ RunSucceeded
    /\ labels # None
    /\ done_queue = <<2, 3, 1>>
    /\ item = Some(TileDataset_getitem(tile_dataset[1], 2))

----------------------------------------------------------------------------
(* Errors of run(), the submission loop, and the view across calls *)

\* the entries the aggregate holds: those of its container, none without one
Entries == IF tiles = None THEN <<>> ELSE store[tiles[1]]

\* how the enumeration of generator g ends: "exhausted" or the error it raises
RECURSIVE EnumerationEnd(_)
EnumerationEnd(g) ==
    LET r == generate_tiles_step(g)
    IN IF r.out # None THEN EnumerationEnd(r.gen) ELSE r.gen.state

EnumerationErrors == {"ConfigurationError", "ConsistencyError"}

\* C11: a call of run() whose enumeration ends in a configuration or
\* consistency error leaves the aggregate's entries and its dataset view as
\* they were before the call, overwrite requested or not: neither the entry
\* of such a call nor any step of its submission loop changes them.
C11_EnumErrorNoMutation ==
    [][/\ (RunCalled /\ pc' = "submit" /\ EnumerationEnd(gen') \in EnumerationErrors)
          => (Entries' = Entries /\ tile_dataset' = tile_dataset)
       /\ (pc = "submit" /\ EnumerationEnd(gen) \in EnumerationErrors)
          => (Entries' = Entries /\ tile_dataset' = tile_dataset)]_vars

\* C12: a call of run() on an aggregate without a slide, or with something
\* that is not a pipeline, fails on the assertions whatever the container
\* holds and whether or not overwrite was asked: the container, its entries,
\* the dataset view, the masks and the labels are unchanged, no worker pool
\* is created and no job is submitted.
C12_AssertionsFirst ==
    [][(RunCalled /\ (~args'.pipeline_ok \/ slide = None))
       => /\ outcome' = "AssertionError"
          /\ pc' = "idle"
          /\ ~pool_made'
          /\ UNCHANGED <<slide, masks, labels, tiles, store, tile_dataset, gen,
                         futures, jobs, done_queue, collected>>]_vars

\* a call without a pipeline and without overwrite failed on the assertion,
\* not on the populated container the first run left
C12_Witness ==
    /\ outcome = "AssertionError"
    /\ calls = 2
    /\ ~args.pipeline_ok
    /\ ~args.overwrite
    /\ tile_dataset # None
    /\ Len(Entries) > 0

\* the k-th tile generator g yields, counted from 1
EnumeratedTile(g, k) == generate_tiles_step([g EXCEPT !.pos = k - 1]).out[1]

\* the number of tiles generator g yields from its position on
RECURSIVE EnumeratedFrom(_)
EnumeratedFrom(g) ==
    LET r == generate_tiles_step(g)
    IN IF r.out # None THEN 1 + EnumeratedFrom(r.gen) ELSE 0

\* the futures list holds the jobs in the order they were submitted
FuturesInOrder == futures = [k \in 1..Len(jobs) |-> k]

\* C13: run() submits exactly one job per enumerated tile, in enumeration
\* order: while it submits, the jobs are as many as the tiles enumerated so
\* far and the k-th job holds the k-th enumerated tile; when submission ends
\* the jobs are as many as the tiles of the whole enumeration.
C13_OneJobPerTile ==
    /\ [](pc = "submit" =>
            /\ Len(jobs) = gen.pos
            /\ FuturesInOrder
            /\ \A k \in 1..Len(jobs) :
                  jobs[k] = [tile |-> EnumeratedTile(gen, k), status |-> jobs[k].status])
    /\ [][(pc = "submit" /\ pc' = "collect") =>
            /\ Len(jobs') = EnumeratedFrom([gen EXCEPT !.pos = 0])
            /\ FuturesInOrder'
            /\ \A k \in 1..Len(jobs') : jobs'[k].tile = EnumeratedTile(gen, k)]_vars

\* the three tiles of a custom backend were submitted, one job each
C13_Witness ==
    /\ pc = "submit"
    /\ slide = Some(CustomSlide(ScriptFixed))
    /\ Len(jobs) = 3
    /\ futures = <<1, 2, 3>>

\* the tile the backend hands to generator g at its position
RawTile(g) ==
    LET a == BackendArgs(g)
    IN Backend_tile(slide[1], a.shape, a.stride, a.pad, g.pos)

\* generator g is about to receive a tile with a coordinate and masks of its
\* own, while the aggregate has masks and pad is off
AtTileWithMasks(g) ==
    /\ g.state = "active"
    /\ masks # None
    /\ ~g.pad
    /\ Backend_valid(slide[1], g.shape, g.stride, g.level)
    /\ g.pos < Backend_count(slide[1], g.shape, g.stride, g.pad)
    /\ RawTile(g).coords # None
    /\ RawTile(g).masks # {}

\* C14: with slide-level masks and pad off, when the backend yields a tile
\* that has a coordinate and already carries masks, the enumeration fails
\* with a consistency error at that tile: the next step of run() ends the
\* call with that error, no job is added for the tile, and the backend's
\* tile, the slide's masks and the container are left as they are.
C14_MaskGuard ==
    [][(pc = "submit" /\ AtTileWithMasks(gen)) =>
          /\ UNCHANGED <<slide, masks, tiles, store>>
          /\ \A k \in DOMAIN jobs' : k \in DOMAIN jobs /\ jobs'[k].tile = jobs[k].tile
          /\ \/ pc' = "idle" /\ outcome' = "ConsistencyError"
             \/ pc' = "submit" /\ gen' = gen]_vars

\* run() ended with the consistency error at the second tile of a backend
\* whose second tile carries its own masks; only the first tile was submitted
C14_Witness ==
    /\ pc = "idle"
    /\ outcome = "ConsistencyError"
    /\ slide = Some(CustomSlide(ScriptWithMasks))
    /\ masks # None
    /\ Len(jobs) = 1
    /\ jobs[1].tile.coords = Some(<<0, 0>>)

\* C15: with slide-level labels, every tile run() submits refers to the very
\* mapping object of the aggregate (same identity, not a copy); without them
\* the tile's labels are the ones the backend produced; and no step of run()
\* or of the enumeration changes the aggregate's labels.
C15_LabelsShared ==
    /\ [](pc = "submit" =>
            \A k \in 1..Len(jobs) :
                jobs[k].tile.labels =
                    IF labels # None THEN labels
                    ELSE RawTile([gen EXCEPT !.pos = k - 1]).labels)
    /\ [][labels' = labels]_vars

\* two tiles were enumerated on an aggregate with labels, the second of
\* which came from the backend with labels of its own
C15_Witness ==
    /\ pc = "submit"
    /\ labels = Some(SourceLabels)
    /\ slide = Some(CustomSlide(ScriptWithMasks))
    /\ Len(jobs) = 2
    /\ jobs[2].tile.labels = labels

\* some job of the current run raised
SomeJobRaised == \E f \in DOMAIN jobs : jobs[f].status = "error"

\* run() returned with every result added and the view over container and labels
RunComplete ==
    /\ RunSucceeded
    /\ Len(collected) = Len(jobs)
    /\ Len(Entries) = Len(jobs)
    /\ tile_dataset = Some([tiles |-> tiles, labels |-> labels])

\* C16: when every submitted job completes, a dispatched run() in which no
\* job raises and no enumeration error occurs eventually returns with all
\* its results in the container and the dataset view over the container and
\* the labels; and the view is only ever produced once every submitted job's
\* result has been collected.
C16_RunTerminates ==
    /\ (outcome = "running") ~>
           (RunComplete \/ SomeJobRaised \/ outcome \in EnumerationErrors)
    /\ [][tile_dataset' # tile_dataset =>
            /\ pc = "collect"
            /\ Len(collected) = Len(jobs)
            /\ Len(Entries) = Len(jobs)]_vars

\* a run of three jobs returned with its three results and the view
C16_Witness ==
    /\ RunComplete
    /\ Len(jobs) = 3
    /\ \A f \in DOMAIN jobs : jobs[f].status = "finished"

\* C17: run() has two phases and no backpressure: while it submits, nothing
\* is collected and the container is empty, however many jobs have already
\* completed; a result is only added once the jobs of all enumerated tiles
\* are submitted; and when the enumeration raises, the jobs of the earlier
\* tiles stay submitted and are never collected.
C17_TwoPhases ==
    /\ [](pc = "submit" => (collected = <<>> /\ Len(Entries) = 0))
    /\ [](outcome \in EnumerationErrors => (collected = <<>> /\ Len(Entries) = 0))
    /\ [][(pc = "submit" /\ pc' = "collect") =>
            Len(jobs') = EnumeratedFrom([gen EXCEPT !.pos = 0])]_vars
    /\ [][(pc = "submit" /\ pc' = "idle") =>
            (jobs' = jobs /\ Len(jobs) = gen.pos)]_vars
    /\ [][Len(collected') > Len(collected) =>
            (pc = "collect" /\ Len(jobs') = Len(jobs) /\ FuturesInOrder)]_vars

\* the three jobs of a run are all submitted and outstanding, none collected
C17_Witness ==
    /\ pc = "collect"
    /\ Len(jobs) = 3
    /\ \A f \in DOMAIN jobs : jobs[f].status = "pending"
    /\ Len(Entries) = 0

\* two jobs of the current run hold tiles of the same coordinate
SomeCoordsShared ==
    \E f, g \in DOMAIN jobs : f # g /\ jobs[f].tile.coords = jobs[g].tile.coords

C19_ViewOfCurrentTiles ==
    (pc = "idle" /\ tile_dataset # None) =>
        /\ tile_dataset[1].tiles = tiles
        /\ TileDataset_len(tile_dataset[1]) = Len(Entries)

====
